---- MODULE Spec2Model ----
(***************************************************************************)
(* Safety-aware conversation orchestrator of AntaraAI: the risk scorer     *)
(* (core/agent.py analyze_sentiment), the dialogue turn state machine      *)
(* (load_memories, agent, route_tools, crisis_node, the tool node), the    *)
(* multi-channel dispatch of core/integrations.py and the                  *)
(* live sessions of core/live_session.py: the registry of the              *)
(* LiveSessionManager and the task group of an AudioVideoLoop.             *)
(*                                                                         *)
(* The specifications share the variables:                                 *)
(*   ScoreSpec       the scorer applied to one text of bounded signals     *)
(*   ScoreInputSpec  the scorer applied to any argument, text or not       *)
(*   Spec            dialogue turns of one thread                          *)
(*   CrisisSpec      crisis_node entered on a short conversation           *)
(*   LiveSpec        the inbound demultiplexer of one live session         *)
(*   RegistrySpec    start_session and stop_session on the registry        *)
(*   PipelineSpec    run() and the tasks of one session, from its start    *)
(*   QueueSpec       the producers and the consumer of out_queue           *)
(*   LoadSpec        load_memories on a store of bounded size              *)
(*   DispatchSpec    one call of IntegrationManager.send_crisis_alert      *)
(* A text is modelled by what the scorer reads of it: the number of        *)
(* entries of each configured list that match it.                          *)
(***************************************************************************)
EXTENDS Integers, Sequences, FiniteSets, TLC

VARIABLES
    \* ---- scorer harness
    scoreText,          \* the signals of the text handed to analyze_sentiment
    scoreLevel,         \* its return value, "unscored" before the call
    \* ---- dialogue turn (State of the graph, its config, its collaborators)
    phase,              \* node of the graph the turn is at
    messages,           \* state["messages"]
    next_node,          \* state["next_node"]
    recall_memories,    \* state["recall_memories"]
    user_id,            \* config["configurable"]["user_id"]
    steps,              \* supersteps of the running turn
    turns,              \* turns started on this thread
    genCalls,           \* invocations of the bound model in the running turn
    toolBudget,         \* tool-call requests the model may still make this turn
    randomHits,         \* random wellness triggers still allowed this turn
    selfie_requests,    \* db["selfie_requests"]
    now,                \* wall clock, in cooldown intervals
    whatsapp_available, \* integration_manager.whatsapp.is_available()
    telegram_available, \* integration_manager.telegram.is_available()
    ehr_available,      \* integration_manager.ehr.is_available()
    hash_seed,          \* the process's string-hash seed
    notifications,      \* db["notifications"]
    storeSize,          \* memories the store may hold for the user
    \* ---- IntegrationManager.send_crisis_alert
    alert_recipients,   \* its argument recipients, a list per channel
    alert_attempts,     \* the sends it has made, in order, with what they met
    alert_results,      \* <<>> before the call, then <<the dict it returned>>
    \* ---- live session, inbound side
    on_audio_receive,   \* whether the session was given the callback
    on_text_receive,
    on_visual_alert,
    units,              \* response units handled so far, each [data, text]
    callbackLog,        \* callback invocations so far, each [unit, cb]
    \* ---- live sessions: the manager's registry and the session objects
    loops,              \* the AudioVideoLoop objects created, in creation order
    active_sessions,    \* LiveSessionManager.active_sessions: id -> index in loops
    returned,           \* what the last call returned
    capturedAtStop,     \* frames the first session had read when stop_session
                        \* found it running
    \* ---- the task set of the first session
    pc,                 \* where each task of the TaskGroup stands
    out_queue,          \* self.out_queue, asyncio.Queue(maxsize=5)
    audio_in_queue,     \* self.audio_in_queue
    sending,            \* the frame send_realtime holds across session.send
    accepted,           \* sources of the frames put on out_queue, in put order
    sent,               \* frames handed to session.send, in send order
    dropped,            \* frames a producer threw away on a full queue
    captures,           \* reads each producer has made
    frameBudget         \* reads the model lets a capture task of a running session make

scoreVars == <<scoreText, scoreLevel>>
dispatchVars == <<alert_recipients, alert_attempts, alert_results>>
turnVars == <<phase, messages, next_node, recall_memories, user_id, steps, turns,
              genCalls, toolBudget, randomHits, selfie_requests, now,
              whatsapp_available, telegram_available, ehr_available, hash_seed,
              notifications, storeSize, dispatchVars>>
liveVars == <<on_audio_receive, on_text_receive, on_visual_alert, units, callbackLog>>
registryVars == <<loops, active_sessions, returned, capturedAtStop>>
pipelineVars == <<pc, out_queue, audio_in_queue, sending, accepted, sent, dropped,
                  captures, frameBudget>>
sessionVars == <<registryVars, pipelineVars>>
vars == <<scoreVars, turnVars, liveVars, sessionVars>>

-----------------------------------------------------------------------------
(* Bounds of the model *)

\* matches of the crisis-side lists (patterns, high-negative, markers)
MaxMatch == 2
\* matches of the escalation, physical, relational and isolation lists
MaxAux == 1
\* occurrences of negative / positive words
MaxWords == 3
\* a new turn is accepted while the thread holds fewer messages than this
MaxThread == 3
\* tool-call requests the response generator makes in one turn
MaxToolRounds == 1
\* random wellness triggers in one turn
MaxRandomHits == 1
\* supersteps the graph runner allows one turn
MaxSupersteps == 12
\* response units a live session receives
MaxUnits == 3
\* session objects one manager creates
MaxSessions == 2
\* the residues hash(...) % 10000 takes are 0..MaxResidue
MaxResidue == 1
\* frames each capture task reads while the queue is studied
MaxFrames == 3
\* memories in the store of a thread's user while whole turns are studied
TurnStored == 1
\* memories in the store of the user while load_memories is studied
MaxStored == 6
\* recipients one channel is given in a crisis alert
MaxRecipients == 2
\* frames each capture task reads while start and stop are studied
MaxStartupFrames == 1

-----------------------------------------------------------------------------
(* RiskScorer: analyze_sentiment *)

Levels == {"NORMAL", "CAUTION", "WARNING", "CRITICAL"}

\* The signals the scorer reads of a text; kind is the Python type of the
\* argument, "str" for every text.
Signals ==
    [kind : {"str"},
     cp : 0..MaxMatch, hn : 0..MaxMatch, mk : 0..MaxMatch,
     ep : 0..MaxAux, ph : 0..MaxAux, rl : 0..MaxAux, iso : 0..MaxAux,
     neg : 0..MaxWords, pos : 0..MaxWords, exclaim : BOOLEAN]

NoSignal ==
    [kind |-> "str", cp |-> 0, hn |-> 0, mk |-> 0, ep |-> 0, ph |-> 0, rl |-> 0, iso |-> 0,
     neg |-> 0, pos |-> 0, exclaim |-> FALSE]

\* The bonus given under the 0.7 ratio instead of over it.
SentimentBonusFlipped(neg, pos) ==
    IF neg > 0 /\ 10 * neg < 7 * (neg + pos + 1)
    THEN (10 * neg) \div (neg + pos + 1)
    ELSE 0

\* int(sentiment_ratio * 10) when sentiment_ratio = neg/(neg+pos+1) > 0.7
SentimentBonus(neg, pos) ==
    IF neg > 0 /\ 10 * neg > 7 * (neg + pos + 1)
    THEN (10 * neg) \div (neg + pos + 1)
    ELSE 0

crisis_score(t) ==
    3 * t.cp + 2 * t.hn + 3 * t.mk + SentimentBonus(t.neg, t.pos)

emotional_escalation_score(t) ==
    2 * t.ep + (IF t.exclaim /\ t.neg > t.pos THEN 2 ELSE 0)

physical_distress_score(t) == t.ph

relational_stress_score(t) == t.rl + t.iso

\* total_risk_score, in tenths
total_risk_score(t) ==
    10 * crisis_score(t) + 15 * emotional_escalation_score(t)
    + 5 * physical_distress_score(t) + 8 * relational_stress_score(t)

\* The ladder with strict comparisons: a total on a threshold falls one level.
RiskLevelStrict(total) ==
    IF total > 80 THEN "CRITICAL"
    ELSE IF total > 40 THEN "WARNING"
    ELSE IF total > 20 THEN "CAUTION"
    ELSE "NORMAL"

\* the threshold ladder, on a total in tenths
RiskLevel(total) ==
    IF total >= 80 THEN "CRITICAL"
    ELSE IF total >= 40 THEN "WARNING"
    ELSE IF total >= 20 THEN "CAUTION"
    ELSE "NORMAL"

\* Arguments that are not a str: None, and a message content made of content
\* blocks (a list).  They match nothing.
NonTextInputs ==
    {[NoSignal EXCEPT !.kind = "NoneType"], [NoSignal EXCEPT !.kind = "list"]}

\* text.lower() on line 21 raises AttributeError for anything but a str;
\* nothing in the function catches it
analyze_sentiment(t) ==
    IF t.kind # "str" THEN "AttributeError" ELSE RiskLevel(total_risk_score(t))

-----------------------------------------------------------------------------
(* Conversation contents *)

NoUser == "none"
Users == {"u1"}

\* What users write.  Each content stands for the signals the scorer finds.
UserTexts == {"calm", "uneasy", "distress", "crisis"}

TextSignals(c) ==
    CASE c = "uneasy"   -> [NoSignal EXCEPT !.hn = 1, !.neg = 1]
      [] c = "distress" -> [NoSignal EXCEPT !.hn = 2, !.neg = 1]
      [] c = "crisis"   -> [NoSignal EXCEPT !.cp = 1, !.hn = 1, !.mk = 1]
      [] OTHER          -> NoSignal

\* any(keyword in content for keyword in mood_related_keywords)
MoodKeyword(c) == c \in {"uneasy", "distress"}

HumanMessage(c, v) ==
    [type |-> "human", content |-> c, tool_calls |-> <<>>, visual |-> v]

AIMessage(c, calls) ==
    [type |-> "ai", content |-> c, tool_calls |-> calls, visual |-> FALSE]

ToolMessage(call) ==
    [type |-> "tool", content |-> call.name, tool_calls |-> <<>>, visual |-> FALSE]

ToolCall(name, id) == [name |-> name, id |-> id]

Last(s) == s[Len(s)]

\* s[-n:]
Tail5(s) == IF Len(s) <= 5 THEN s ELSE SubSeq(s, Len(s) - 4, Len(s))

-----------------------------------------------------------------------------
(* should_request_selfie *)

\* the newest record of db["selfie_requests"] that carries this user_id
LastSelfieRequest(u) ==
    LET mine == {i \in 1..Len(selfie_requests) : selfie_requests[i].user_id = u}
    IN  IF mine = {} THEN <<>>
        ELSE <<selfie_requests[CHOOSE i \in mine : \A j \in mine : j <= i]>>

\* datetime.now() - last_request_time < timedelta(hours=INTERVAL), in intervals
InCooldown(u) ==
    /\ LastSelfieRequest(u) # <<>>
    /\ now - LastSelfieRequest(u)[1].timestamp < 1

MoodInRecent(msgs) ==
    \E i \in 1..Len(Tail5(msgs)) : MoodKeyword(Tail5(msgs)[i].content)

\* The values should_request_selfie can return: db_ok is whether the store
\* answered, lucky whether random.random() fell under the configured chance.
should_request_selfie(msgs, u, db_ok, lucky) ==
    IF u = NoUser THEN FALSE
    ELSE IF ~db_ok THEN FALSE
    ELSE IF InCooldown(u) THEN FALSE
    ELSE IF MoodInRecent(msgs) THEN TRUE
    ELSE lucky

-----------------------------------------------------------------------------
(* route_tools *)

\* The route taken from the last message alone.
route_tools_by_message(nn, msgs) ==
    IF Last(msgs).tool_calls # <<>> THEN "TOOLS" ELSE "DONE"

route_tools(nn, msgs) ==
    IF nn = "crisis_node" THEN "CRISIS"
    ELSE IF Last(msgs).tool_calls # <<>> THEN "TOOLS"
    ELSE "DONE"

-----------------------------------------------------------------------------
(* crisis_node: the escalation turn *)

HashSeeds == {"seedA", "seedB"}

\* The three message templates, chosen by severity (the last one on "else").
crisis_message(severity) ==
    IF severity = "CRITICAL" THEN "template_critical"
    ELSE IF severity = "WARNING" THEN "template_warning"
    ELSE "template_caution"

\* The decimal text of hash(s): fixed for a process by its hash seed.  Under
\* seedB two templates differ only after the eighth character.
HashText(seed, s) ==
    CASE seed = "seedA" /\ s = "template_critical" -> <<"-", "4", "1", "7", "7", "0", "3", "9", "2", "6">>
      [] seed = "seedA" /\ s = "template_warning"  -> <<"8", "8", "0", "1", "5", "5", "2", "3", "1">>
      [] seed = "seedA" /\ s = "template_caution"  -> <<"3", "0", "9", "9", "4", "1", "6", "7">>
      [] seed = "seedB" /\ s = "template_critical" -> <<"5", "2", "6", "6", "1", "0", "4", "8", "7">>
      [] seed = "seedB" /\ s = "template_warning"  -> <<"5", "2", "6", "6", "1", "0", "4", "8", "3">>
      [] OTHER                                     -> <<"-", "9", "1">>

\* str(hash(s))[:8]
Hash8(seed, s) ==
    LET h == HashText(seed, s)
    IN  IF Len(h) <= 8 THEN h ELSE SubSeq(h, 1, 8)

\* f"{prefix}_{severity.lower()}_{str(hash(crisis_message))[:8]}"
AlertId(prefix, severity, seed) ==
    [prefix |-> prefix, severity |-> severity, hash |-> Hash8(seed, crisis_message(severity))]

\* f"{prefix}_{str(hash(crisis_message))[:8]}": the two follow-up requests
FollowUpId(prefix, severity, seed) ==
    [prefix |-> prefix, severity |-> "", hash |-> Hash8(seed, crisis_message(severity))]

\* The severity taken from the message the conversation began with.
CrisisSeverityOfFirst(msgs) ==
    IF msgs # <<>> THEN analyze_sentiment(TextSignals(Head(msgs).content))
    ELSE "CRITICAL"

\* severity of a crisis entry: the score of the last message, CRITICAL when
\* there is none
CrisisSeverity(msgs) ==
    IF msgs # <<>> THEN analyze_sentiment(TextSignals(Last(msgs).content))
    ELSE "CRITICAL"

StandardAlert(severity, seed) ==
    <<ToolCall("send_alert_tool", AlertId("crisis_alert", severity, seed))>>

WhatsAppAlert(severity, seed, available) ==
    IF available
    THEN <<ToolCall("send_whatsapp_message_tool", AlertId("whatsapp_crisis_alert", severity, seed))>>
    ELSE <<>>

TelegramAlert(severity, seed, available) ==
    IF available
    THEN <<ToolCall("send_telegram_message_tool", AlertId("telegram_crisis_alert", severity, seed))>>
    ELSE <<>>

\* The record logged whenever the channel is available, user id or not.
EhrLogWithoutUser(severity, seed, u, available) ==
    IF available
    THEN <<ToolCall("log_to_ehr_tool", AlertId("ehr_crisis_log", severity, seed))>>
    ELSE <<>>

EhrLog(severity, seed, u, available) ==
    IF u # NoUser /\ available
    THEN <<ToolCall("log_to_ehr_tool", AlertId("ehr_crisis_log", severity, seed))>>
    ELSE <<>>

\* The follow-up requests made for WARNING as well.
VisualInterventionOnWarning(severity, seed) ==
    IF severity \in {"CRITICAL", "WARNING"}
    THEN <<ToolCall("request_selfie_tool", FollowUpId("critical_selfie_request", severity, seed)),
           ToolCall("analyze_visual_context_tool", FollowUpId("critical_visual_analysis", severity, seed))>>
    ELSE <<>>

VisualIntervention(severity, seed) ==
    IF severity = "CRITICAL"
    THEN <<ToolCall("request_selfie_tool", FollowUpId("critical_selfie_request", severity, seed)),
           ToolCall("analyze_visual_context_tool", FollowUpId("critical_visual_analysis", severity, seed))>>
    ELSE <<>>

\* tool_calls of the escalation turn, in the order crisis_node appends them
CrisisToolCalls(severity, seed, u, wa, tg, ehr) ==
    StandardAlert(severity, seed)
    \o WhatsAppAlert(severity, seed, wa)
    \o TelegramAlert(severity, seed, tg)
    \o EhrLog(severity, seed, u, ehr)
    \o VisualIntervention(severity, seed)

\* The edges of the graph that do not go through route_tools.
EdgeAfterLoad == "GENERATE"
EdgeAfterTools == "GENERATE"
EdgeAfterCrisis == "DONE"

\* The pending route left as GENERATE set it.
CrisisNextNodeKept == next_node

\* the pending route crisis_node returns
CrisisNextNode == "none"

\* service.send_notification, reached only with a user id; stored tells whether
\* the service could be built and the record inserted
NotificationsAfter(u, severity, stored) ==
    IF u # NoUser /\ stored
    THEN Append(notifications, [user_id |-> u, severity |-> severity])
    ELSE notifications

\* The failure of the recording let through to the caller: no turn returned.
ReturnedUnlessRecordingFailed(stored, turn) == IF stored THEN turn ELSE <<>>

\* try: ... except: pass -- the turn is returned whether the record was
\* stored or not
Returned(stored, turn) == turn

crisis_node ==
    /\ phase = "CRISIS"
    /\ steps < MaxSupersteps
    /\ \E stored \in BOOLEAN :
        LET severity == CrisisSeverity(messages)
            calls == CrisisToolCalls(severity, hash_seed, user_id, whatsapp_available,
                                     telegram_available, ehr_available)
        IN  /\ messages' = messages
                            \o Returned(stored, <<AIMessage(crisis_message(severity), calls)>>)
            /\ notifications' = NotificationsAfter(user_id, severity, stored)
    /\ next_node' = CrisisNextNode
    /\ phase' = EdgeAfterCrisis
    /\ steps' = steps + 1
    /\ UNCHANGED <<recall_memories, user_id, turns, genCalls, toolBudget, randomHits,
                   selfie_requests, now, whatsapp_available, telegram_available,
                   ehr_available, hash_seed>>
    /\ UNCHANGED <<storeSize, dispatchVars, scoreVars, liveVars, sessionVars>>

-----------------------------------------------------------------------------
(* agent (GENERATE), followed by the conditional edge route_tools *)

\* "selfie_req_" + str(hash(datetime.now())): a value of the moment of the call
MomentId(prefix) == [prefix |-> prefix, severity |-> "", hash |-> <<turns, steps>>]

\* for msg in state["messages"]: 'visual_context' in msg.metadata
visual_context_available(msgs) == \E i \in 1..Len(msgs) : msgs[i].visual

\* The check that lets WARNING through to the generator.
CrisisDetectedCriticalOnly(msgs) ==
    /\ Last(msgs).type = "human"
    /\ analyze_sentiment(TextSignals(Last(msgs).content)) = "CRITICAL"

\* sentiment in ["CRITICAL", "WARNING"] on a last message of type human
CrisisDetected(msgs) ==
    /\ Last(msgs).type = "human"
    /\ analyze_sentiment(TextSignals(Last(msgs).content)) \in {"CRITICAL", "WARNING"}

agentFrame ==
    /\ UNCHANGED <<recall_memories, user_id, turns, selfie_requests, now,
                   whatsapp_available, telegram_available, ehr_available, hash_seed,
                   notifications>>
    /\ UNCHANGED <<storeSize, dispatchVars, scoreVars, liveVars, sessionVars>>

\* return {"next_node": "crisis_node"}
agentCrisis ==
    /\ CrisisDetected(messages)
    /\ next_node' = "crisis_node"
    /\ UNCHANGED <<messages, genCalls, toolBudget, randomHits>>

\* the wellness check-in short-circuit
agentSelfie ==
    /\ ~CrisisDetected(messages)
    /\ \E db_ok \in BOOLEAN, lucky \in {l \in BOOLEAN : l => randomHits > 0} :
        /\ should_request_selfie(messages, user_id, db_ok, lucky)
        /\ randomHits' = IF MoodInRecent(messages) \/ InCooldown(user_id)
                         THEN randomHits ELSE randomHits - 1
    /\ messages' = Append(messages,
            AIMessage("checkin", <<ToolCall("request_selfie_tool", MomentId("selfie_req"))>>))
    /\ UNCHANGED <<next_node, genCalls, toolBudget>>

\* the visual-context short-circuit
agentVisual ==
    /\ ~CrisisDetected(messages)
    /\ \E db_ok \in BOOLEAN : ~should_request_selfie(messages, user_id, db_ok, FALSE)
    /\ visual_context_available(messages)
    /\ messages' = Append(messages,
            AIMessage("analyzing", <<ToolCall("analyze_visual_context_tool", MomentId("visual_analysis"))>>))
    /\ UNCHANGED <<next_node, genCalls, toolBudget, randomHits>>

\* bound.invoke: the response generator, which may ask for a tool
agentGenerate ==
    /\ ~CrisisDetected(messages)
    /\ \E db_ok \in BOOLEAN : ~should_request_selfie(messages, user_id, db_ok, FALSE)
    /\ ~visual_context_available(messages)
    /\ genCalls' = genCalls + 1
    /\ \/ /\ toolBudget > 0
          /\ toolBudget' = toolBudget - 1
          /\ messages' = Append(messages,
                AIMessage("reply", <<ToolCall("search_memory", MomentId("call"))>>))
       \/ /\ messages' = Append(messages, AIMessage("reply", <<>>))
          /\ UNCHANGED toolBudget
    /\ UNCHANGED <<next_node, randomHits>>

agent ==
    /\ phase = "GENERATE"
    /\ steps < MaxSupersteps
    /\ \/ agentCrisis
       \/ agentSelfie
       \/ agentVisual
       \/ agentGenerate
    /\ phase' = route_tools(next_node', messages')
    /\ steps' = steps + 1
    /\ agentFrame

-----------------------------------------------------------------------------
(* The tool node: runs the tool calls of the last message *)

\* request_selfie_tool: the record it inserts carries no user_id
SelfieRecord == [user_id |-> NoUser, timestamp |-> now, status |-> "requested"]

SelfieRequestsAfter(calls) ==
    IF \E i \in 1..Len(calls) : calls[i].name = "request_selfie_tool"
    THEN Append(selfie_requests, SelfieRecord)
    ELSE selfie_requests

ToolResults(calls) == [i \in 1..Len(calls) |-> ToolMessage(calls[i])]

tools ==
    /\ phase = "TOOLS"
    /\ steps < MaxSupersteps
    /\ messages' = messages \o ToolResults(Last(messages).tool_calls)
    /\ selfie_requests' = SelfieRequestsAfter(Last(messages).tool_calls)
    /\ phase' = EdgeAfterTools
    /\ steps' = steps + 1
    /\ UNCHANGED <<next_node, recall_memories, user_id, turns, genCalls, toolBudget,
                   randomHits, now, whatsapp_available, telegram_available,
                   ehr_available, hash_seed, notifications>>
    /\ UNCHANGED <<storeSize, dispatchVars, scoreVars, liveVars, sessionVars>>

-----------------------------------------------------------------------------
(* IntegrationManager.send_crisis_alert *)

\* the keys of the result, in the order the channels are served
Channels == <<"whatsapp", "telegram", "ehr">>

\* the key of recipients the channel reads
RecipientsKey(ch) == IF ch = "ehr" THEN "ehr_patients" ELSE ch

\* what a send can meet: the service answers with success, answers with
\* another status, or the request raises
SendOutcomes == {"ok", "refused", "raises"}

\* recipient lists of up to MaxRecipients entries
RecipientLists == {[i \in 1..n |-> i] : n \in 0..MaxRecipients}

NoRecipients == [k \in {RecipientsKey(Channels[c]) : c \in 1..3} |-> <<>>]

DispatchIdle ==
    /\ alert_recipients = NoRecipients
    /\ alert_attempts = <<>>
    /\ alert_results = <<>>

\* self.<channel>.is_available()
ChannelAvailable(ch) ==
    CASE ch = "whatsapp" -> whatsapp_available
      [] ch = "telegram" -> telegram_available
      [] ch = "ehr" -> ehr_available

\* if self.<channel>.is_available() and recipients.get(<key>)
Served(ch) == ChannelAvailable(ch) /\ alert_recipients[RecipientsKey(ch)] # <<>>

\* send_message / log_patient_note: True on the success status, False on any
\* other and on an exception of the request, which is caught
send_message(outcome) == outcome = "ok"

\* The loop left at the first send that does not succeed.
RecipientsUntilFailure(rcpts, met) ==
    SubSeq(rcpts, 1, Cardinality({i \in 1..Len(rcpts) : \A j \in 1..i-1 : met[j] = "ok"}))

\* for recipient in recipients[<key>]: every entry of the list, in order
RecipientsServed(rcpts, met) == rcpts

\* the sends of one channel and what each met
ChannelAttempts(ch, met) ==
    LET served == RecipientsServed(alert_recipients[RecipientsKey(ch)], met)
    IN  [i \in 1..Len(served) |-> [channel |-> ch, recipient |-> served[i], met |-> met[i]]]

\* results[<channel>]: {"recipient": ..., "success": ...} per send
ChannelResults(ch, met) ==
    LET tried == ChannelAttempts(ch, met)
    IN  [i \in 1..Len(tried) |->
            [recipient |-> tried[i].recipient, success |-> send_message(tried[i].met)]]

\* what the sends of a channel can meet, one outcome per entry of its list
Meetings(ch) ==
    [1..(IF Served(ch) THEN Len(alert_recipients[RecipientsKey(ch)]) ELSE 0) -> SendOutcomes]

\* The whole call: the channels in order, each served channel a key of the
\* result.
send_crisis_alert ==
    /\ alert_results = <<>>
    /\ \E wa \in Meetings("whatsapp"), tg \in Meetings("telegram"), ehr \in Meetings("ehr") :
        LET met == [ch \in {"whatsapp", "telegram", "ehr"} |->
                       CASE ch = "whatsapp" -> wa [] ch = "telegram" -> tg [] ch = "ehr" -> ehr]
            served == {c \in 1..3 : Served(Channels[c])}
            tries(c) == IF c \in served THEN ChannelAttempts(Channels[c], met[Channels[c]])
                        ELSE <<>>
        IN  /\ alert_attempts' = tries(1) \o tries(2) \o tries(3)
            /\ alert_results' =
                  <<[ch \in {Channels[c] : c \in served} |-> ChannelResults(ch, met[ch])]>>
    /\ UNCHANGED <<phase, messages, next_node, recall_memories, user_id, steps, turns,
                   genCalls, toolBudget, randomHits, selfie_requests, now,
                   whatsapp_available, telegram_available, ehr_available, hash_seed,
                   notifications, storeSize, alert_recipients>>
    /\ UNCHANGED <<scoreVars, liveVars, sessionVars>>

-----------------------------------------------------------------------------
(* load_memories (LOAD_CONTEXT) *)

\* limit=5
SearchLimit == 5

\* the store of a user that holds n memories, best match first
Stored(n) == [i \in 1..n |-> [content |-> i]]

\* The search handing back all it finds.
SearchUnlimited(store, limit) == store

\* memory_store.search(namespace, query, limit): the first limit matches
search(store, limit) ==
    IF Len(store) <= limit THEN store ELSE SubSeq(store, 1, limit)

\* f"- {r.value.get('content', ...)}" for each result
FormatMemories(results) == [i \in 1..Len(results) |-> <<"-", results[i].content>>]

\* what the search can hand back on the present store, already formatted
RecallResults ==
    {FormatMemories(search(Stored(n), SearchLimit)) : n \in 0..storeSize}

load_memories ==
    /\ phase = "LOAD_CONTEXT"
    /\ steps < MaxSupersteps
    /\ \E found \in RecallResults, search_ok \in BOOLEAN :
        recall_memories' = IF user_id = NoUser \/ ~search_ok THEN <<>> ELSE found
    /\ phase' = EdgeAfterLoad
    /\ steps' = steps + 1
    /\ UNCHANGED <<messages, next_node, user_id, turns, genCalls, toolBudget, randomHits,
                   selfie_requests, now, whatsapp_available, telegram_available,
                   ehr_available, hash_seed, notifications>>
    /\ UNCHANGED <<storeSize, dispatchVars, scoreVars, liveVars, sessionVars>>

-----------------------------------------------------------------------------
(* One turn of the thread: process_message, and the runner's step limit *)

TurnOver == phase \in {"IDLE", "DONE", "ABORTED"}

\* graph.stream({"messages": [("user", user_prompt)]}, config)
process_message ==
    /\ TurnOver
    /\ Len(messages) < MaxThread
    /\ \E c \in UserTexts, v \in BOOLEAN, u \in Users \cup {NoUser} :
        /\ messages' = Append(messages, HumanMessage(c, v))
        /\ user_id' = u
    /\ phase' = "LOAD_CONTEXT"
    /\ steps' = 0
    /\ turns' = turns + 1
    /\ genCalls' = 0
    /\ toolBudget' = MaxToolRounds
    /\ randomHits' = MaxRandomHits
    /\ UNCHANGED <<next_node, recall_memories, selfie_requests, now, whatsapp_available,
                   telegram_available, ehr_available, hash_seed, notifications>>
    /\ UNCHANGED <<storeSize, dispatchVars, scoreVars, liveVars, sessionVars>>

\* the runner stops a turn that has not ended within its superstep limit
RecursionAbort ==
    /\ ~TurnOver
    /\ steps = MaxSupersteps
    /\ phase' = "ABORTED"
    /\ UNCHANGED <<messages, next_node, recall_memories, user_id, steps, turns, genCalls,
                   toolBudget, randomHits, selfie_requests, now, whatsapp_available,
                   telegram_available, ehr_available, hash_seed, notifications>>
    /\ UNCHANGED <<storeSize, dispatchVars, scoreVars, liveVars, sessionVars>>

\* The server process is started anew between two turns (uvicorn runs with
\* --reload): the new interpreter salts hash() afresh.  The thread is the one
\* the client names again by its thread_id.
Restart ==
    /\ TurnOver
    /\ turns > 0
    /\ hash_seed' \in HashSeeds \ {hash_seed}
    /\ UNCHANGED <<phase, messages, next_node, recall_memories, user_id, steps, turns,
                   genCalls, toolBudget, randomHits, selfie_requests, now,
                   whatsapp_available, telegram_available, ehr_available, notifications>>
    /\ UNCHANGED <<storeSize, dispatchVars, scoreVars, liveVars, sessionVars>>

-----------------------------------------------------------------------------
(* Live session, inbound demultiplexer: one response of receive_audio *)

\* what response.text can be: absent, free text, or text holding the literal
\* CRITICAL_VISUAL_ALERT
UnitTexts == {"none", "plain", "marker"}

LogEntry(n, event) == [unit |-> n, event |-> event]

\* if data := response.data: ...; continue
AudioEvents(n, cb_audio) ==
    IF cb_audio THEN <<LogEntry(n, "on_audio_receive")>> ELSE <<>>

\* if "CRITICAL_VISUAL_ALERT" in text: print(...); if self.on_visual_alert: ...
AlertEvents(n, text, cb_alert) ==
    IF text = "marker"
    THEN <<LogEntry(n, "alert_printed")>>
         \o (IF cb_alert THEN <<LogEntry(n, "on_visual_alert")>> ELSE <<>>)
    ELSE <<>>

\* if self.on_text_receive: self.on_text_receive(text)
ForwardEvents(n, cb_text) ==
    IF cb_text THEN <<LogEntry(n, "on_text_receive")>> ELSE <<>>

\* The text branch with the forwarding moved ahead of the marker check.
TextEventsForwardFirst(n, text, cb_alert, cb_text) ==
    ForwardEvents(n, cb_text) \o AlertEvents(n, text, cb_alert)

\* the branch taken for a response that carries text and no data
TextEvents(n, text, cb_alert, cb_text) ==
    AlertEvents(n, text, cb_alert) \o ForwardEvents(n, cb_text)

\* the body of "async for response in turn"
ResponseEvents(n, data, text, cb_audio, cb_alert, cb_text) ==
    IF data THEN AudioEvents(n, cb_audio)
    ELSE IF text # "none" THEN TextEvents(n, text, cb_alert, cb_text)
    ELSE <<>>

receive_audio ==
    /\ Len(units) < MaxUnits
    /\ \E data \in BOOLEAN, text \in UnitTexts :
        /\ units' = Append(units, [data |-> data, text |-> text])
        /\ callbackLog' = callbackLog \o
              ResponseEvents(Len(units) + 1, data, text, on_audio_receive,
                             on_visual_alert, on_text_receive)
    /\ UNCHANGED <<on_audio_receive, on_text_receive, on_visual_alert>>
    /\ UNCHANGED <<scoreVars, turnVars, sessionVars>>

-----------------------------------------------------------------------------
(* LiveSessionManager: the registry of live sessions *)

VideoModes == {"camera", "screen", "none"}

\* hash(str(asyncio.current_task())) % 10000, as far as the bound lets it range
SessionIdResidues == 0..MaxResidue

\* f"session_{user_id}_{hash(str(asyncio.current_task())) % 10000}"
SessionId(u, residue) == [user |-> u, residue |-> residue]

\* every id a caller can name: those start_session can return, and a foreign one
SessionIds ==
    {SessionId(u, r) : u \in Users, r \in SessionIdResidues}
    \cup {SessionId("nobody", 0)}

\* AudioVideoLoop.__init__; run is where the task running run() stands,
\* outcome how run() came to its end
AudioVideoLoop(sid, u, mode) ==
    [session_id |-> sid, user_id |-> u, video_mode |-> mode, running |-> TRUE,
     audio_stream |-> "none", run |-> "scheduled", outcome |-> "none"]

Registered(sid) == sid \in DOMAIN active_sessions

NotStopped == <<>>

\* self.active_sessions[session_id] = session_loop
RegistryWith(sid, i) ==
    [x \in DOMAIN active_sessions \cup {sid} |->
        IF x = sid THEN i ELSE active_sessions[x]]

\* del self.active_sessions[session_id]
RegistryWithout(sid) ==
    [x \in DOMAIN active_sessions \ {sid} |-> active_sessions[x]]

\* if self.audio_stream: self.audio_stream.close()
StreamClosed(stream) == IF stream = "none" THEN "none" ELSE "closed"

\* The loop stopped without its flag being cleared.
StoppedKeepsFlag(loop) ==
    [loop EXCEPT !.audio_stream = StreamClosed(loop.audio_stream)]

\* AudioVideoLoop.stop
Stopped(loop) ==
    [loop EXCEPT !.running = FALSE, !.audio_stream = StreamClosed(loop.audio_stream)]

\* get_active_sessions: {sid: {"active": loop.is_running()}}
status ==
    [sid \in DOMAIN active_sessions |-> [active |-> loops[active_sessions[sid]].running]]

\* start_session up to its return: the object is built and registered, the
\* task that will run it is created and has not run yet
StartSession(u, mode, residue) ==
    LET sid == SessionId(u, residue)
    IN  /\ loops' = Append(loops, AudioVideoLoop(sid, u, mode))
        /\ active_sessions' = RegistryWith(sid, Len(loops) + 1)
        /\ returned' = [op |-> "start_session", arg |-> sid, value |-> "id"]
        /\ UNCHANGED capturedAtStop

start_session ==
    /\ Len(loops) < MaxSessions
    /\ \E u \in Users, mode \in VideoModes, residue \in SessionIdResidues :
        StartSession(u, mode, residue)
    /\ UNCHANGED pipelineVars
    /\ UNCHANGED <<scoreVars, turnVars, liveVars>>

StopSession(sid) ==
    /\ IF Registered(sid)
       THEN /\ loops' = [loops EXCEPT ![active_sessions[sid]] = Stopped(@)]
            /\ active_sessions' = RegistryWithout(sid)
       ELSE UNCHANGED <<loops, active_sessions>>
    /\ capturedAtStop' =
          IF Registered(sid) /\ active_sessions[sid] = 1 /\ loops[1].running
             /\ capturedAtStop = NotStopped
          THEN <<captures.audio + captures.video>>
          ELSE capturedAtStop
    /\ returned' = [op |-> "stop_session", arg |-> sid,
                    value |-> IF Registered(sid) THEN "True" ELSE "False"]
    /\ UNCHANGED pipelineVars
    /\ UNCHANGED <<scoreVars, turnVars, liveVars>>

stop_session == \E sid \in SessionIds : StopSession(sid)

\* run() of a session from its start to its end, seen from the registry: it
\* may fail before the task group exists (the connection cannot be opened),
\* end on a task's error, or end after the flag was cleared; in each case the
\* finally clause calls stop() and nothing touches active_sessions.
RunOutcomes == {"startup_error", "task_error", "normal"}

run_to_end ==
    \E i \in 1..Len(loops), how \in RunOutcomes :
        /\ loops[i].run = "scheduled"
        /\ how = "normal" => ~loops[i].running
        /\ loops' = [loops EXCEPT ![i] = [Stopped(@) EXCEPT !.run = "done", !.outcome = how]]
        /\ UNCHANGED <<active_sessions, returned, capturedAtStop>>
        /\ UNCHANGED pipelineVars
        /\ UNCHANGED <<scoreVars, turnVars, liveVars>>

-----------------------------------------------------------------------------
(* AudioVideoLoop: run() and the task group of the first session *)

\* asyncio.Queue(maxsize=5)
OutQueueCapacity == 5

Tasks == {"send_realtime", "get_frames", "get_screen", "listen_audio",
          "receive_audio", "play_audio"}

\* a task that is not there, or has come to its end
Finished == {"absent", "done", "cancelled", "failed"}

NoTasks == [t \in Tasks |-> "absent"]

NoFrame == [seq |-> 0, source |-> "none"]

QueueFull == Len(out_queue) >= OutQueueCapacity

\* tg.create_task(...) for the tasks of the session's video mode
TasksCreated(mode) ==
    [t \in Tasks |->
        CASE t = "get_frames" -> IF mode = "camera" THEN "created" ELSE "absent"
          [] t = "get_screen" -> IF mode = "screen" THEN "created" ELSE "absent"
          [] OTHER -> "created"]

pipelineFrame == UNCHANGED <<scoreVars, turnVars, liveVars>>
                 /\ UNCHANGED <<active_sessions, returned, capturedAtStop>>

\* run() up to its first suspension, the opening of the connection
run_start ==
    /\ Len(loops) >= 1
    /\ loops[1].run = "scheduled"
    /\ loops' = [loops EXCEPT ![1].run = "connecting"]
    /\ UNCHANGED pipelineVars
    /\ pipelineFrame

\* the connection is open: queues and tasks are created and run() polls the
\* flag; or it cannot be opened: the error is none of those run() catches, the
\* finally clause calls stop() and the task ends with the error
run_connected ==
    /\ Len(loops) >= 1
    /\ loops[1].run = "connecting"
    /\ \E ok \in BOOLEAN :
        IF ok
        THEN /\ pc' = TasksCreated(loops[1].video_mode)
             /\ loops' = [loops EXCEPT ![1].run = IF loops[1].running THEN "polling" ELSE "joining"]
        ELSE /\ pc' = pc
             /\ loops' = [loops EXCEPT ![1] = [Stopped(@) EXCEPT !.run = "failed",
                                                              !.outcome = "startup_error"]]
    /\ UNCHANGED <<out_queue, audio_in_queue, sending, accepted, sent, dropped, captures, frameBudget>>
    /\ pipelineFrame

\* while self.running: await asyncio.sleep(0.1) -- the flag is seen cleared
\* and the body of the task group is left
run_poll ==
    /\ Len(loops) >= 1
    /\ loops[1].run = "polling"
    /\ ~loops[1].running
    /\ loops' = [loops EXCEPT ![1].run = "joining"]
    /\ UNCHANGED pipelineVars
    /\ pipelineFrame

\* TaskGroup.__aexit__ returns once every task has ended; the connection is
\* closed and the finally clause calls stop()
run_joined ==
    /\ Len(loops) >= 1
    /\ loops[1].run = "joining"
    /\ \A t \in Tasks : pc[t] \in Finished
    /\ loops' = [loops EXCEPT ![1] = [Stopped(@) EXCEPT !.run = "done", !.outcome = "normal"]]
    /\ UNCHANGED pipelineVars
    /\ pipelineFrame

\* The failing task ends alone and the others go on.
TasksAfterErrorAlone(t) ==
    [x \in Tasks |-> IF x = t THEN "failed" ELSE pc[x]]

\* A task raises: the task group cancels the others and run(), the
\* ExceptionGroup handler closes the stream and the finally clause calls stop().
TasksAfterError(t) ==
    [x \in Tasks |-> IF x = t THEN "failed"
                     ELSE IF pc[x] \in Finished THEN pc[x] ELSE "cancelled"]

LoopAfterError(how) ==
    [loops EXCEPT ![1] = [Stopped(@) EXCEPT !.run = "done", !.outcome = how]]

PipelineUp == Len(loops) >= 1 /\ loops[1].run \in {"polling", "joining"}

At(t, where) == PipelineUp /\ pc[t] = where

Goto(t, where) == pc' = [pc EXCEPT ![t] = where]

\* Each action below is the run of one task from one suspension point (an
\* await that waits) to the next; the loop test "while self.running" is made
\* inside it, where the code makes it.

\* ---- send_realtime: while self.running: msg = await get(); await send(msg)

\* The newest frame taken instead of the oldest.
GetNewest(q) == q[Len(q)]

\* out_queue.get(): the oldest frame
Get(q) == Head(q)

\* from the loop test to the next wait: the end of the task, get() on an empty
\* queue, or session.send() of the frame get() gave at once
SendRealtimeLoop ==
    IF ~loops[1].running
    THEN Goto("send_realtime", "done") /\ UNCHANGED <<out_queue, sending>>
    ELSE IF out_queue = <<>>
    THEN Goto("send_realtime", "get_wait") /\ UNCHANGED <<out_queue, sending>>
    ELSE /\ Goto("send_realtime", "sending")
         /\ sending' = Get(out_queue)
         /\ out_queue' = Tail(out_queue)

send_realtime_begin ==
    /\ At("send_realtime", "created")
    /\ SendRealtimeLoop
    /\ UNCHANGED <<loops, audio_in_queue, accepted, sent, dropped, captures, frameBudget>>
    /\ pipelineFrame

\* get() wakes up on a frame; the flag is not looked at before the send
send_realtime_get ==
    /\ At("send_realtime", "get_wait")
    /\ out_queue # <<>>
    /\ Goto("send_realtime", "sending")
    /\ sending' = Get(out_queue)
    /\ out_queue' = Tail(out_queue)
    /\ UNCHANGED <<loops, audio_in_queue, accepted, sent, dropped, captures, frameBudget>>
    /\ pipelineFrame

\* session.send(input=msg) returns and the loop goes round, or it raises on a
\* broken connection
send_realtime_sent ==
    /\ At("send_realtime", "sending")
    /\ \E ok \in BOOLEAN :
        IF ok
        THEN /\ sent' = Append(sent, sending)
             /\ SendRealtimeLoop
             /\ UNCHANGED loops
        ELSE /\ sent' = sent
             /\ sending' = NoFrame
             /\ out_queue' = out_queue
             /\ pc' = TasksAfterError("send_realtime")
             /\ loops' = LoopAfterError("task_error")
    /\ UNCHANGED <<audio_in_queue, accepted, dropped, captures, frameBudget>>
    /\ pipelineFrame

\* ---- the capture tasks and their hand-over to out_queue

\* The frame put whether the queue is full or not.
OfferUnguarded(full) == "put"

\* if not self.out_queue.full(): await self.out_queue.put(frame)
Offer(full) == IF full THEN "drop" ELSE "put"

\* The hand-over of one frame by task t and its next loop test: the frame is
\* put when there is room and thrown away by the test on a full queue (a put
\* on a full queue would wait for room); then the next read starts, or the
\* task ends on a cleared flag.
HandOver(t, source) ==
    LET o == Offer(QueueFull)
    IN  /\ out_queue' = IF o = "put" /\ ~QueueFull
                        THEN Append(out_queue, [seq |-> Len(accepted) + 1, source |-> source])
                        ELSE out_queue
        /\ accepted' = IF o = "put" /\ ~QueueFull THEN Append(accepted, source) ELSE accepted
        /\ dropped' = IF o = "drop" THEN dropped + 1 ELSE dropped
        /\ Goto(t, IF o = "put" /\ QueueFull THEN "put_wait"
                   ELSE IF loops[1].running THEN "reading" ELSE "done")

\* a read in flight returns; the model lets a running session make frameBudget
\* reads per capture task
ReadReturns(n) == n < frameBudget \/ ~loops[1].running

\* cap = await asyncio.to_thread(cv2.VideoCapture, 0)
get_frames_begin ==
    /\ At("get_frames", "created")
    /\ Goto("get_frames", "opening")
    /\ UNCHANGED <<loops, out_queue, audio_in_queue, sending, accepted, sent, dropped, captures, frameBudget>>
    /\ pipelineFrame

\* VideoCapture returns, opened or not (it does not raise); first loop test
get_frames_opened ==
    /\ At("get_frames", "opening")
    /\ Goto("get_frames", IF loops[1].running THEN "reading" ELSE "done")
    /\ UNCHANGED <<loops, out_queue, audio_in_queue, sending, accepted, sent, dropped, captures, frameBudget>>
    /\ pipelineFrame

\* the first loop test of get_screen
get_screen_begin ==
    /\ At("get_screen", "created")
    /\ Goto("get_screen", IF loops[1].running THEN "reading" ELSE "done")
    /\ UNCHANGED <<loops, out_queue, audio_in_queue, sending, accepted, sent, dropped, captures, frameBudget>>
    /\ pipelineFrame

\* the read returns: a frame, then asyncio.sleep(1.0); or None and the loop is
\* left (a camera that cannot be opened or read gives None)
VideoRead(t, results) ==
    /\ At(t, "reading")
    /\ ReadReturns(captures.video)
    /\ \E frame \in results :
        /\ Goto(t, IF frame THEN "sleeping" ELSE "done")
        /\ captures' = IF frame THEN [captures EXCEPT !.video = @ + 1] ELSE captures
    /\ UNCHANGED <<loops, out_queue, audio_in_queue, sending, accepted, sent, dropped, frameBudget>>
    /\ pipelineFrame

\* the sleep is over: the frame is handed over, the flag not looked at before
VideoWake(t) ==
    /\ At(t, "sleeping")
    /\ HandOver(t, "video")
    /\ UNCHANGED <<loops, audio_in_queue, sending, sent, captures, frameBudget>>
    /\ pipelineFrame

get_frames_read == VideoRead("get_frames", BOOLEAN)
get_frames_put == VideoWake("get_frames")

get_screen_read == VideoRead("get_screen", {TRUE})
get_screen_put == VideoWake("get_screen")

\* ---- listen_audio

\* get_default_input_device_info(), then the wait for pya.open in a thread
listen_audio_begin ==
    /\ At("listen_audio", "created")
    /\ Goto("listen_audio", "opening")
    /\ UNCHANGED <<loops, out_queue, audio_in_queue, sending, accepted, sent, dropped, captures, frameBudget>>
    /\ pipelineFrame

\* The session set going again by the stream it was handed.
StreamOpenedAndResumed(loop) == [loop EXCEPT !.audio_stream = "open", !.running = TRUE]

\* self.audio_stream = <the stream pya.open returned>
StreamOpened(loop) == [loop EXCEPT !.audio_stream = "open"]

\* self.audio_stream = ...: the microphone is opened and the first loop test
\* made, or it cannot be opened and the task raises
listen_audio_opened ==
    /\ At("listen_audio", "opening")
    /\ \E ok \in BOOLEAN :
        IF ok
        THEN /\ Goto("listen_audio", IF loops[1].running THEN "reading" ELSE "done")
             /\ loops' = [loops EXCEPT ![1] = StreamOpened(@)]
        ELSE /\ pc' = TasksAfterError("listen_audio")
             /\ loops' = LoopAfterError("device_error")
    /\ UNCHANGED <<out_queue, audio_in_queue, sending, accepted, sent, dropped, captures, frameBudget>>
    /\ pipelineFrame

\* the read in the worker thread returns a chunk, which is handed over; a
\* read on a stream that stop() closed meanwhile returns the chunk it had or
\* raises, and a device error raises at any time
listen_audio_read ==
    /\ At("listen_audio", "reading")
    /\ ReadReturns(captures.audio)
    /\ \E ok \in BOOLEAN :
        IF ok
        THEN /\ HandOver("listen_audio", "audio")
             /\ captures' = [captures EXCEPT !.audio = @ + 1]
             /\ UNCHANGED loops
        ELSE /\ pc' = TasksAfterError("listen_audio")
             /\ loops' = LoopAfterError("task_error")
             /\ UNCHANGED <<out_queue, accepted, dropped, captures>>
    /\ UNCHANGED <<audio_in_queue, sending, sent, frameBudget>>
    /\ pipelineFrame

\* ---- receive_audio, as a task: its loop around the turns of the remote end
\* (what it does with one response unit is the action receive_audio)

\* while self.running: turn = self.session.receive(); async for response in turn
receive_audio_begin ==
    /\ At("receive_audio", "created")
    /\ Goto("receive_audio", IF loops[1].running THEN "receiving" ELSE "done")
    /\ UNCHANGED <<loops, out_queue, audio_in_queue, sending, accepted, sent, dropped, captures, frameBudget>>
    /\ pipelineFrame

\* the remote end completes the turn: audio_in_queue is emptied and the loop
\* test is made again
receive_audio_turn_complete ==
    /\ At("receive_audio", "receiving")
    /\ audio_in_queue' = <<>>
    /\ Goto("receive_audio", IF loops[1].running THEN "receiving" ELSE "done")
    /\ UNCHANGED <<loops, out_queue, sending, accepted, sent, dropped, captures, frameBudget>>
    /\ pipelineFrame

\* ---- play_audio

\* the wait for pya.open(output=True) in a thread
play_audio_begin ==
    /\ At("play_audio", "created")
    /\ Goto("play_audio", "opening")
    /\ UNCHANGED <<loops, out_queue, audio_in_queue, sending, accepted, sent, dropped, captures, frameBudget>>
    /\ pipelineFrame

\* the output stream is open (or cannot be opened); while self.running:
\* bytestream = await self.audio_in_queue.get() -- no task puts on
\* audio_in_queue, so the get waits
play_audio_opened ==
    /\ At("play_audio", "opening")
    /\ \E ok \in BOOLEAN :
        IF ok
        THEN /\ Goto("play_audio", IF ~loops[1].running THEN "done"
                                   ELSE IF audio_in_queue = <<>> THEN "get_wait"
                                   ELSE "playing")
             /\ UNCHANGED loops
        ELSE /\ pc' = TasksAfterError("play_audio")
             /\ loops' = LoopAfterError("device_error")
    /\ UNCHANGED <<out_queue, audio_in_queue, sending, accepted, sent, dropped, captures, frameBudget>>
    /\ pipelineFrame

\* the steps the tasks of the session take by themselves
TaskSteps ==
    \/ send_realtime_begin \/ send_realtime_get \/ send_realtime_sent
    \/ get_frames_begin \/ get_frames_opened \/ get_frames_read \/ get_frames_put
    \/ get_screen_begin \/ get_screen_read \/ get_screen_put
    \/ listen_audio_begin \/ listen_audio_opened \/ listen_audio_read
    \/ receive_audio_begin
    \/ play_audio_begin \/ play_audio_opened

RunSteps == run_start \/ run_connected \/ run_poll \/ run_joined

\* what the remote end does
RemoteSteps == receive_audio_turn_complete

-----------------------------------------------------------------------------
(* The scorer applied to one text *)

Score ==
    /\ scoreLevel = "unscored"
    /\ scoreLevel' = analyze_sentiment(scoreText)
    /\ UNCHANGED scoreText
    /\ UNCHANGED <<turnVars, liveVars, sessionVars>>

-----------------------------------------------------------------------------
(* Specifications *)

ScoreIdle == scoreText = NoSignal /\ scoreLevel = "unscored"

\* LiveSessionManager.__init__: no session
NoSession ==
    /\ loops = <<>>
    /\ active_sessions = <<>>
    /\ returned = [op |-> "none", arg |-> SessionId("nobody", 0), value |-> "none"]
    /\ capturedAtStop = NotStopped
    /\ pc = NoTasks
    /\ out_queue = <<>>
    /\ audio_in_queue = <<>>
    /\ sending = NoFrame
    /\ accepted = <<>>
    /\ sent = <<>>
    /\ dropped = 0
    /\ captures = [audio |-> 0, video |-> 0]

\* no session, and none studied
SessionIdle == NoSession /\ frameBudget = 0

LiveIdle ==
    /\ on_audio_receive = FALSE
    /\ on_text_receive = FALSE
    /\ on_visual_alert = FALSE
    /\ units = <<>>
    /\ callbackLog = <<>>

TurnInit ==
    /\ phase = "IDLE"
    /\ messages = <<>>
    /\ next_node = "none"
    /\ recall_memories = <<>>
    /\ user_id = NoUser
    /\ steps = 0
    /\ turns = 0
    /\ genCalls = 0
    /\ toolBudget = 0
    /\ randomHits = 0
    /\ selfie_requests = <<>>
    /\ now = 0
    /\ whatsapp_available \in BOOLEAN
    /\ telegram_available \in BOOLEAN
    /\ ehr_available \in BOOLEAN
    /\ hash_seed \in HashSeeds
    /\ notifications = <<>>
    /\ storeSize = TurnStored
    /\ DispatchIdle

Init == TurnInit /\ ScoreIdle /\ LiveIdle /\ SessionIdle

Next ==
    \/ process_message
    \/ load_memories
    \/ agent
    \/ tools
    \/ crisis_node
    \/ RecursionAbort
    \/ Restart

Spec == Init /\ [][Next]_vars

\* a thread on which nothing has happened, with no integration configured
TurnIdle ==
    /\ TurnInit
    /\ ~whatsapp_available /\ ~telegram_available /\ ~ehr_available
    /\ hash_seed = "seedA"

\* the scorer on every text within the bounds
ScoreInit ==
    /\ scoreText \in Signals
    /\ scoreLevel = "unscored"
    /\ TurnIdle
    /\ LiveIdle
    /\ SessionIdle

ScoreSpec == ScoreInit /\ [][Score]_vars

\* the scorer on every argument a caller can pass, text or not
ScoreInputInit ==
    /\ scoreText \in Signals \cup NonTextInputs
    /\ scoreLevel = "unscored"
    /\ TurnIdle
    /\ LiveIdle
    /\ SessionIdle

ScoreInputSpec == ScoreInputInit /\ [][Score]_vars

\* crisis_node entered on any conversation of at most one message
CrisisInit ==
    /\ phase = "CRISIS"
    /\ messages \in {<<>>} \cup {<<HumanMessage(c, FALSE)>> : c \in UserTexts}
    /\ next_node = "crisis_node"
    /\ recall_memories = <<>>
    /\ user_id \in Users \cup {NoUser}
    /\ steps = 0
    /\ turns = 1
    /\ genCalls = 0
    /\ toolBudget = 0
    /\ randomHits = 0
    /\ selfie_requests = <<>>
    /\ now = 0
    /\ whatsapp_available \in BOOLEAN
    /\ telegram_available \in BOOLEAN
    /\ ehr_available \in BOOLEAN
    /\ hash_seed \in HashSeeds
    /\ notifications = <<>>
    /\ storeSize = TurnStored
    /\ DispatchIdle
    /\ ScoreIdle
    /\ LiveIdle
    /\ SessionIdle

CrisisSpec == CrisisInit /\ [][crisis_node]_vars

\* load_memories entered on a new message, on a fresh thread or after an
\* earlier turn that left its recall list, with a store of up to MaxStored
\* memories
LoadInit ==
    /\ phase = "LOAD_CONTEXT"
    /\ \E c \in UserTexts, v \in BOOLEAN :
        \/ /\ messages = <<HumanMessage(c, v)>>
           /\ recall_memories = <<>>
           /\ turns = 1
        \/ /\ messages = <<HumanMessage("calm", FALSE), AIMessage("reply", <<>>),
                            HumanMessage(c, v)>>
           /\ recall_memories \in {<<>>, FormatMemories(Stored(1))}
           /\ turns = 2
    /\ next_node = "none"
    /\ user_id \in Users \cup {NoUser}
    /\ steps = 0
    /\ genCalls = 0
    /\ toolBudget = MaxToolRounds
    /\ randomHits = MaxRandomHits
    /\ selfie_requests = <<>>
    /\ now = 0
    /\ whatsapp_available = FALSE
    /\ telegram_available = FALSE
    /\ ehr_available = FALSE
    /\ hash_seed = "seedA"
    /\ notifications = <<>>
    /\ storeSize = MaxStored
    /\ DispatchIdle
    /\ ScoreIdle
    /\ LiveIdle
    /\ SessionIdle

LoadSpec == LoadInit /\ [][load_memories]_vars

\* send_crisis_alert called with any recipient lists under any configuration
DispatchInit ==
    /\ phase = "IDLE"
    /\ messages = <<>>
    /\ next_node = "none"
    /\ recall_memories = <<>>
    /\ user_id = NoUser
    /\ steps = 0
    /\ turns = 0
    /\ genCalls = 0
    /\ toolBudget = 0
    /\ randomHits = 0
    /\ selfie_requests = <<>>
    /\ now = 0
    /\ whatsapp_available \in BOOLEAN
    /\ telegram_available \in BOOLEAN
    /\ ehr_available \in BOOLEAN
    /\ hash_seed = "seedA"
    /\ notifications = <<>>
    /\ storeSize = TurnStored
    /\ alert_recipients \in [DOMAIN NoRecipients -> RecipientLists]
    /\ alert_attempts = <<>>
    /\ alert_results = <<>>
    /\ ScoreIdle
    /\ LiveIdle
    /\ SessionIdle

DispatchSpec == DispatchInit /\ [][send_crisis_alert]_vars

\* a live session started with any combination of callbacks
LiveInit ==
    /\ on_audio_receive \in BOOLEAN
    /\ on_text_receive \in BOOLEAN
    /\ on_visual_alert \in BOOLEAN
    /\ units = <<>>
    /\ callbackLog = <<>>
    /\ TurnIdle
    /\ ScoreIdle
    /\ SessionIdle

LiveSpec == LiveInit /\ [][receive_audio]_vars

\* a manager on which sessions are started and stopped, each run() seen as a
\* whole
RegistryInit == SessionIdle /\ TurnIdle /\ ScoreIdle /\ LiveIdle

RegistryNext == start_session \/ stop_session \/ run_to_end

RegistrySpec == RegistryInit /\ [][RegistryNext]_vars

\* start_session for the manager's first session
start_first_session ==
    /\ loops = <<>>
    /\ \E u \in Users, mode \in VideoModes :
        StartSession(u, mode, 0)
    /\ UNCHANGED pipelineVars
    /\ UNCHANGED <<scoreVars, turnVars, liveVars>>

\* stop_session called with the id start_session returned
stop_first_session ==
    /\ Len(loops) >= 1
    /\ StopSession(loops[1].session_id)

\* one session from start_session on, task by task
PipelineInit ==
    /\ NoSession
    /\ frameBudget = MaxStartupFrames
    /\ TurnIdle /\ ScoreIdle /\ LiveIdle

PipelineNext ==
    \/ start_first_session
    \/ stop_first_session
    \/ RunSteps
    \/ TaskSteps
    \/ RemoteSteps

PipelineSpec == PipelineInit /\ [][PipelineNext]_vars

\* the outbound side of a session whose task group has just been set up: the
\* capture tasks, the queue and send_realtime
QueueTasks == {"send_realtime", "get_frames", "get_screen", "listen_audio"}

QueueInit ==
    /\ TurnIdle /\ ScoreIdle /\ LiveIdle
    /\ \E mode \in VideoModes :
        /\ loops = <<[AudioVideoLoop(SessionId("u1", 0), "u1", mode) EXCEPT !.run = "polling"]>>
        /\ pc = [t \in Tasks |-> IF t \in QueueTasks THEN TasksCreated(mode)[t] ELSE "absent"]
    /\ active_sessions = [sid \in {SessionId("u1", 0)} |-> 1]
    /\ returned = [op |-> "start_session", arg |-> SessionId("u1", 0), value |-> "id"]
    /\ capturedAtStop = NotStopped
    /\ frameBudget = MaxFrames
    /\ out_queue = <<>>
    /\ audio_in_queue = <<>>
    /\ sending = NoFrame
    /\ accepted = <<>>
    /\ sent = <<>>
    /\ dropped = 0
    /\ captures = [audio |-> 0, video |-> 0]

QueueNext ==
    \/ send_realtime_begin \/ send_realtime_get \/ send_realtime_sent
    \/ get_frames_begin \/ get_frames_opened \/ get_frames_read \/ get_frames_put
    \/ get_screen_begin \/ get_screen_read \/ get_screen_put
    \/ listen_audio_begin \/ listen_audio_opened \/ listen_audio_read
    \/ stop_first_session

QueueSpec == QueueInit /\ [][QueueNext]_vars

-----------------------------------------------------------------------------
(* Claims on the risk scorer, under ScoreSpec *)

Rank(level) ==
    CASE level = "NORMAL" -> 0
      [] level = "CAUTION" -> 1
      [] level = "WARNING" -> 2
      [] level = "CRITICAL" -> 3

Scored == scoreLevel # "unscored"

\* C9: every text that contains at least one configured crisis-marker phrase
\* scores CRITICAL, whatever its other signals are.
C9_MarkerScoresCritical ==
    (Scored /\ scoreText.mk >= 1) => scoreLevel = "CRITICAL"

\* the total of the specification, in tenths, from the four component scores
SpecTotal(t) ==
    10 * crisis_score(t) + 15 * emotional_escalation_score(t)
    + 5 * physical_distress_score(t) + 8 * relational_stress_score(t)

\* C10: the level returned is CRITICAL iff total >= 8, WARNING iff
\* 4 <= total < 8, CAUTION iff 2 <= total < 4 and NORMAL iff total < 2, where
\* total = crisis + 1.5 escalation + 0.5 physical + 0.8 relational; no smaller
\* total is given a higher level.
C10_LevelFollowsTotal ==
    Scored =>
        LET total == SpecTotal(scoreText)
        IN  /\ scoreLevel \in Levels
            /\ scoreLevel = "CRITICAL" <=> total >= 80
            /\ scoreLevel = "WARNING" <=> (40 <= total /\ total < 80)
            /\ scoreLevel = "CAUTION" <=> (20 <= total /\ total < 40)
            /\ scoreLevel = "NORMAL" <=> total < 20
            /\ \A smaller \in 0..total : Rank(RiskLevel(smaller)) <= Rank(scoreLevel)

\* a text scored CRITICAL with a total of exactly 8
C10_Witness ==
    Scored /\ SpecTotal(scoreText) = 80 /\ scoreLevel = "CRITICAL"

\* C11: scoring never raises: the empty text scores NORMAL, and an argument
\* that is not a text (a missing value, a non-string content) scores NORMAL
\* as well.
C11_ScoringNeverRaises ==
    Scored =>
        /\ scoreLevel \in Levels
        /\ scoreText = NoSignal => scoreLevel = "NORMAL"
        /\ scoreText \in NonTextInputs => scoreLevel = "NORMAL"

\* the text t with one match less in the named list
OneLess(t, f) ==
    CASE f = "cp" -> [t EXCEPT !.cp = @ - 1]
      [] f = "hn" -> [t EXCEPT !.hn = @ - 1]
      [] f = "mk" -> [t EXCEPT !.mk = @ - 1]
      [] f = "ep" -> [t EXCEPT !.ep = @ - 1]
      [] f = "ph" -> [t EXCEPT !.ph = @ - 1]
      [] f = "rl" -> [t EXCEPT !.rl = @ - 1]
      [] f = "iso" -> [t EXCEPT !.iso = @ - 1]
      [] f = "neg" -> [t EXCEPT !.neg = @ - 1]

CountOf(t, f) ==
    CASE f = "cp" -> t.cp [] f = "hn" -> t.hn [] f = "mk" -> t.mk
      [] f = "ep" -> t.ep [] f = "ph" -> t.ph [] f = "rl" -> t.rl
      [] f = "iso" -> t.iso [] f = "neg" -> t.neg

NegativeLists == {"cp", "hn", "mk", "ep", "ph", "rl", "iso", "neg"}

\* the texts the scored text is obtained from by adding one negative phrase:
\* one match more in one list, or the repeated exclamation marks, the
\* positive-word count unchanged
OnePhraseLess(t) ==
    {OneLess(t, f) : f \in {g \in NegativeLists : CountOf(t, g) > 0}}
    \cup (IF t.exclaim THEN {[t EXCEPT !.exclaim = FALSE]} ELSE {})

\* C12: adding a negative phrase to a text never lowers its total risk nor
\* its level: the scored text totals and ranks at least as high as every text
\* with one negative match less and the same positive-word count (and so, one
\* phrase at a time, as every text it contains).
C12_MonotoneUnderAccumulation ==
    Scored =>
        \A t1 \in OnePhraseLess(scoreText) :
            /\ total_risk_score(t1) <= total_risk_score(scoreText)
            /\ Rank(analyze_sentiment(t1)) <= Rank(scoreLevel)

\* a text whose last negative word brought the sentiment bonus and a higher
\* level with it
C12_Witness ==
    /\ Scored
    /\ scoreText.neg = 3 /\ scoreText.pos = 0
    /\ scoreLevel = "WARNING"
    /\ analyze_sentiment(OneLess(scoreText, "neg")) = "NORMAL"

-----------------------------------------------------------------------------
(* Claims on the live session's inbound side, under LiveSpec *)

\* positions of the log that record callback cb for unit n
LogPositions(n, cb) ==
    {k \in 1..Len(callbackLog) : callbackLog[k] = LogEntry(n, cb)}

\* C4: every response unit whose text holds the safety marker has the visual
\* alert callback invoked for it, with or without an audio payload on the unit
\* and with or without an alert callback given at session start.
C4_MarkerAlwaysEscalates ==
    \A n \in 1..Len(units) :
        units[n].text = "marker" => LogPositions(n, "on_visual_alert") # {}

\* a unit handled on the text branch
HandledAsText(n) == ~units[n].data /\ units[n].text # "none"

\* C5: for a unit holding the marker the alert callback is never invoked after
\* the text callback, and comes first when both are given; every unit handled
\* as text reaches the text callback, marker or not.
C5_AlertBeforeForward ==
    \A n \in 1..Len(units) :
        /\ \A a \in LogPositions(n, "on_visual_alert"), f \in LogPositions(n, "on_text_receive") :
              a < f
        /\ (HandledAsText(n) /\ units[n].text = "marker" /\ on_visual_alert /\ on_text_receive)
              => \E a \in LogPositions(n, "on_visual_alert"), f \in LogPositions(n, "on_text_receive") :
                    a < f
        /\ (HandledAsText(n) /\ on_text_receive)
              => Cardinality(LogPositions(n, "on_text_receive")) = 1

\* a marker unit for which the alert callback and then the text callback ran,
\* after a plain unit that was forwarded too
C5_Witness ==
    \E n \in 1..Len(units), m \in 1..Len(units) :
        /\ units[n].text = "marker"
        /\ \E a \in LogPositions(n, "on_visual_alert"), f \in LogPositions(n, "on_text_receive") :
              a < f
        /\ units[m].text = "plain"
        /\ LogPositions(m, "on_text_receive") # {}

-----------------------------------------------------------------------------
(* Claims on the crisis handler, under CrisisSpec *)

CrisisTemplates == {"template_critical", "template_warning", "template_caution"}

IsEscalation(m) == m.type = "ai" /\ m.content \in CrisisTemplates

\* how many tool calls of a message name the given tool
CallCount(m, name) ==
    Cardinality({k \in 1..Len(m.tool_calls) : m.tool_calls[k].name = name})

\* the conversation crisis_node was entered on, and the severity it used
Front(s) == SubSeq(s, 1, Len(s) - 1)
EnteredSeverity == CrisisSeverity(Front(messages))

CrisisReturned == phase = "DONE" /\ messages # <<>> /\ IsEscalation(Last(messages))

\* C2: the escalation turn holds exactly one generic alert action, and the two
\* follow-up actions (wellness check, visual-context analysis) exactly when the
\* severity is CRITICAL.
C2_OneAlertFollowUpsIffCritical ==
    CrisisReturned =>
        LET m == Last(messages)
            followUps == IF EnteredSeverity = "CRITICAL" THEN 1 ELSE 0
        IN  /\ CallCount(m, "send_alert_tool") = 1
            /\ CallCount(m, "request_selfie_tool") = followUps
            /\ CallCount(m, "analyze_visual_context_tool") = followUps

\* a WARNING entry answered with alerts and no follow-up
C2_Witness ==
    /\ CrisisReturned
    /\ EnteredSeverity = "WARNING"
    /\ CallCount(Last(messages), "send_alert_tool") = 1
    /\ CallCount(Last(messages), "request_selfie_tool") = 0

Bit(b) == IF b THEN 1 ELSE 0

\* C3 as claimed: each of the WhatsApp, Telegram and EHR actions is in the
\* escalation turn exactly once iff its channel is available, user id or not.
C3_ChannelIffAvailable ==
    CrisisReturned =>
        LET m == Last(messages)
        IN  /\ CallCount(m, "send_whatsapp_message_tool") = Bit(whatsapp_available)
            /\ CallCount(m, "send_telegram_message_tool") = Bit(telegram_available)
            /\ CallCount(m, "log_to_ehr_tool") = Bit(ehr_available)

\* C3 amended: the WhatsApp and Telegram actions are present once iff their
\* channel is available; the EHR action is present once iff the EHR channel is
\* available and the turn configuration carries a user id.
C3_ChannelIffAvailableAndAddressed ==
    CrisisReturned =>
        LET m == Last(messages)
        IN  /\ CallCount(m, "send_whatsapp_message_tool") = Bit(whatsapp_available)
            /\ CallCount(m, "send_telegram_message_tool") = Bit(telegram_available)
            /\ CallCount(m, "log_to_ehr_tool") = Bit(ehr_available /\ user_id # NoUser)

\* an entry without user id, all channels available: no EHR action
C3_Witness ==
    /\ CrisisReturned
    /\ user_id = NoUser
    /\ whatsapp_available /\ telegram_available /\ ehr_available
    /\ CallCount(Last(messages), "send_whatsapp_message_tool") = 1
    /\ CallCount(Last(messages), "log_to_ehr_tool") = 0

-----------------------------------------------------------------------------
(* Claims on the dialogue turn, under Spec *)

\* GENERATE is entered on a user-authored last message scoring WARNING or
\* CRITICAL
AtRiskEntry ==
    /\ phase = "GENERATE"
    /\ Last(messages).type = "human"
    /\ Rank(analyze_sentiment(TextSignals(Last(messages).content))) >= 2

\* C1: when GENERATE is entered on a user-authored last message that scores
\* WARNING or CRITICAL, the step appends no message, does not invoke the
\* response generator and routes to CRISIS; and a pending CRISIS route wins
\* over the tool-call check on every message of the thread, with or without
\* tool calls.
C1_AtRiskRoutesToCrisis ==
    [][ /\ AtRiskEntry =>
            /\ messages' = messages
            /\ genCalls' = genCalls
            /\ phase' = "CRISIS"
        /\ \A i \in 1..Len(messages) :
            route_tools("crisis_node", <<messages[i]>>) = "CRISIS"
      ]_vars

\* a WARNING user message routed to CRISIS with nothing appended and the
\* generator not called, on a thread that already holds a tool call
C1_Witness ==
    /\ phase = "CRISIS"
    /\ Last(messages).type = "human"
    /\ analyze_sentiment(TextSignals(Last(messages).content)) = "WARNING"
    /\ genCalls = 0
    /\ next_node = "crisis_node"
    /\ \E i \in 1..Len(messages) : messages[i].tool_calls # <<>>

\* C6: a step taken in CRISIS appends exactly one message, the escalation
\* turn, clears the pending route and ends the turn in DONE; from DONE the
\* thread only starts a new turn, never GENERATE, TOOLS or CRISIS again; and
\* no turn starts with a CRISIS route pending.
C6_CrisisEndsTurn ==
    [][ /\ phase = "CRISIS" =>
            /\ Len(messages') = Len(messages) + 1
            /\ Front(messages') = messages
            /\ IsEscalation(Last(messages'))
            /\ next_node' = "none"
            /\ phase' = "DONE"
        /\ (phase = "DONE" /\ phase' # "DONE") =>
            /\ phase' = "LOAD_CONTEXT"
            /\ turns' = turns + 1
        /\ phase' = "LOAD_CONTEXT" => next_node' # "crisis_node"
      ]_vars

\* a second turn started on a thread whose first turn ended in an escalation
C6_Witness ==
    /\ phase = "LOAD_CONTEXT"
    /\ turns = 2
    /\ Len(messages) = 3
    /\ IsEscalation(messages[2])
    /\ next_node = "none"

\* positions of the escalation turns of the thread; each follows the message
\* that triggered it
EscalationPositions == {i \in 2..Len(messages) : IsEscalation(messages[i])}

CallsAt(i) == messages[i].tool_calls

\* C7: the key of an escalation action is a function of severity, message
\* content and channel: two crisis entries triggered by the same text carry
\* the same key on each channel, and within one escalation turn no two actions
\* share a channel or a key.
C7_KeyDeterministic ==
    \A i \in EscalationPositions, j \in EscalationPositions :
        /\ messages[i - 1].content = messages[j - 1].content =>
              \A a \in 1..Len(CallsAt(i)), b \in 1..Len(CallsAt(j)) :
                  CallsAt(i)[a].name = CallsAt(j)[b].name
                      => CallsAt(i)[a].id = CallsAt(j)[b].id
        /\ \A a \in 1..Len(CallsAt(i)), b \in 1..Len(CallsAt(i)) :
              a # b => /\ CallsAt(i)[a].name # CallsAt(i)[b].name
                       /\ CallsAt(i)[a].id # CallsAt(i)[b].id

\* C8: no turn is cut off by the runner's step limit: with a generator that
\* asks for tools a bounded number of times, every turn started in
\* LOAD_CONTEXT ends in DONE by itself, also after a check-in or a
\* visual-context short-circuit has looped through TOOLS.
C8_TurnReachesDone ==
    phase # "ABORTED"

-----------------------------------------------------------------------------
(* Claims on the session registry, under RegistrySpec *)

\* a step that is a call of stop_session (one that changes nothing at all, a
\* repeated stop of an unknown id, is a stuttering step)
StopStep == returned' # returned /\ returned'.op = "stop_session"

\* C13: stop(sessionId) returns true exactly when the id is registered at the
\* call; afterwards the id is not in status() and the session's running flag
\* is false; a stop of an unknown or already stopped id returns false and
\* changes neither registry nor sessions; the entries and the flags of all
\* other sessions are unchanged in every case.
C13_StopReturnsAndFrame ==
    [][ StopStep =>
          LET sid == returned'.arg
          IN  /\ returned'.value = (IF Registered(sid) THEN "True" ELSE "False")
              /\ sid \notin DOMAIN status'
              /\ Registered(sid) => ~loops'[active_sessions[sid]].running
              /\ ~Registered(sid) => (loops' = loops /\ active_sessions' = active_sessions)
              /\ \A other \in DOMAIN status \ {sid} :
                    other \in DOMAIN status' /\ status'[other] = status[other]
                    /\ active_sessions'[other] = active_sessions[other]
              /\ Len(loops') = Len(loops)
              /\ \A i \in 1..Len(loops) :
                    (Registered(sid) => i # active_sessions[sid]) => loops'[i] = loops[i]
      ]_vars

\* a stop that returned true while another session stays registered and running
C13_Witness ==
    /\ returned.op = "stop_session"
    /\ returned.value = "True"
    /\ ~Registered(returned.arg)
    /\ \E i \in 1..Len(loops) : loops[i].session_id = returned.arg /\ ~loops[i].running
    /\ \E other \in DOMAIN status : status[other].active

\* C16: the ids start returned are pairwise different, also for the same user
\* and also after a stop, so that the registry entry of a session that is
\* still running is never replaced by a later start.
C16_SessionIdsUnique ==
    /\ \A i \in 1..Len(loops), j \in 1..Len(loops) :
          i # j => loops[i].session_id # loops[j].session_id
    /\ \A i \in 1..Len(loops) :
          (loops[i].running /\ loops[i].run = "scheduled")
              => (Registered(loops[i].session_id) => active_sessions[loops[i].session_id] = i)

-----------------------------------------------------------------------------
(* Claims on the pipeline of one session, under PipelineSpec *)

\* neither run() nor a task nor the remote end has a step left
Settled == ~ENABLED (RunSteps \/ TaskSteps \/ RemoteSteps)

\* run() has returned and every task of the group has ended
Terminated ==
    /\ Len(loops) >= 1
    /\ loops[1].run \in {"done", "failed"}
    /\ \A t \in Tasks : pc[t] \in Finished

\* stop_session found the first session registered and running
StoppedWhileRunning == capturedAtStop # NotStopped

\* C14: after stop on a running session every task of the session comes to
\* see running = false and ends, the tasks waiting on an empty queue or on the
\* remote stream included: once nothing can step any more, run() has returned
\* and all its tasks have ended.
C14_StopTerminatesTasks ==
    (StoppedWhileRunning /\ Settled) => Terminated

\* C15: a stop that comes right after the start, before the session captured
\* any frame, leaves no status entry, and the pipeline, whether it was up at
\* the stop or starts later, captures and sends no frame afterwards and comes
\* to its end.
C15_StopBeforeFirstFrame ==
    capturedAtStop = <<0>> =>
        /\ loops[1].session_id \notin DOMAIN status
        /\ captures = [audio |-> 0, video |-> 0]
        /\ accepted = <<>> /\ sent = <<>>
        /\ Settled => Terminated

\* C17: when the start fails because the connection, the microphone or the
\* camera cannot be opened, the session is not in the registry.
C17_FailedStartNotRegistered ==
    (Len(loops) >= 1 /\ loops[1].outcome \in {"startup_error", "device_error"})
        => ~Registered(loops[1].session_id)

\* C18: a session whose pipeline ended on the error of one of its tasks is
\* removed from the registry: once nothing can step any more it is not
\* registered.
C18_FailedSessionRemoved ==
    (Len(loops) >= 1 /\ loops[1].outcome = "task_error" /\ Settled)
        => ~Registered(loops[1].session_id)

-----------------------------------------------------------------------------
(* Claims on the outbound queue of a running session, under QueueSpec *)

Producers == {"listen_audio", "get_frames", "get_screen"}

\* the step in which a capture task offers its frame to out_queue
AudioHandOver == captures'.audio = captures.audio + 1

VideoHandOver ==
    \E t \in {"get_frames", "get_screen"} :
        pc[t] = "sleeping" /\ pc'[t] \in {"reading", "done", "put_wait"}

\* C19: the outbound queue never holds more than 5 frames, and a capture task
\* that finds it full drops its frame and goes on without waiting for room
\* (when there is room the frame is accepted), whatever the interleaving of
\* the audio producer, the video producer and the consumer.
C19_BoundedQueueDropsWhenFull ==
    [][ /\ Len(out_queue) <= OutQueueCapacity
        /\ Len(out_queue') <= OutQueueCapacity
        /\ \A t \in Producers : pc'[t] # "put_wait"
        /\ (AudioHandOver \/ VideoHandOver) =>
              IF QueueFull
              THEN out_queue' = out_queue /\ accepted' = accepted /\ dropped' = dropped + 1
              ELSE /\ Len(out_queue') = Len(out_queue) + 1
                   /\ Len(accepted') = Len(accepted) + 1
                   /\ dropped' = dropped
      ]_vars

\* both producers have read, the queue is full and a frame was dropped
C19_Witness ==
    /\ Len(out_queue) = OutQueueCapacity
    /\ dropped > 0
    /\ captures.audio > 0 /\ captures.video > 0

\* C20: only send_realtime writes to the connection, and what it has sent is
\* at every moment a prefix of the frames accepted into out_queue, in the order
\* they were accepted: the k-th frame sent is the k-th frame accepted.
C20_SentIsPrefixOfAccepted ==
    [][ /\ sent' # sent =>
              (pc["send_realtime"] = "sending" /\ sent' = Append(sent, sending))
        /\ Len(sent') <= Len(accepted')
        /\ \A k \in 1..Len(sent') : sent'[k] = [seq |-> k, source |-> accepted'[k]]
      ]_vars

\* frames of both producers were sent while a later frame waited in the queue
C20_Witness ==
    /\ Len(sent) >= 2
    /\ \E i, j \in 1..Len(sent) : sent[i].source = "audio" /\ sent[j].source = "video"
    /\ out_queue # <<>>

-----------------------------------------------------------------------------
(* Further claims on the pipeline of one session, under PipelineSpec *)

-----------------------------------------------------------------------------
(* Claims on load_memories, under LoadSpec *)

-----------------------------------------------------------------------------
(* Claims on the multi-channel dispatch, under DispatchSpec *)

\* positions of the attempt log that are a send to recipient r on channel ch
AttemptsTo(ch, r) ==
    {k \in 1..Len(alert_attempts) :
        alert_attempts[k].channel = ch /\ alert_attempts[k].recipient = r}

-----------------------------------------------------------------------------
(* Further claims on the dialogue turn, under Spec *)

\* C24: two wellness check-in requests for the same user are never less than
\* one cooldown interval apart: of any two requests recorded for the thread's
\* user the later is at least one interval after the earlier.
C24_CheckinsOneCooldownApart ==
    \A i \in 1..Len(selfie_requests), j \in 1..Len(selfie_requests) :
        i < j => selfie_requests[j].timestamp - selfie_requests[i].timestamp >= 1

\* C25: the severity crisis_node uses equals the level GENERATE computed for
\* the message that caused the routing: every crisis entry of a turn is on a
\* last message of the user that scores WARNING or CRITICAL, and the
\* escalation turn carries the template and the actions of that level, never
\* the CAUTION template; on an empty conversation the severity is CRITICAL.
C25_SeverityIsRoutingLevel ==
    [][ (phase = "CRISIS" /\ messages' # messages) =>
          LET level == analyze_sentiment(TextSignals(Last(messages).content))
              turn == Last(messages')
          IN  /\ Last(messages).type = "human"
              /\ level \in {"WARNING", "CRITICAL"}
              /\ turn.content = crisis_message(level)
              /\ turn.content # crisis_message("CAUTION")
              /\ turn.tool_calls = CrisisToolCalls(level, hash_seed, user_id,
                                                   whatsapp_available, telegram_available,
                                                   ehr_available)
              /\ CrisisSeverity(<<>>) = "CRITICAL"
      ]_vars

\* a WARNING escalation on a later turn of a thread that began calmly
C25_Witness ==
    /\ CrisisReturned
    /\ Len(messages) >= 4
    /\ analyze_sentiment(TextSignals(Head(messages).content)) = "NORMAL"
    /\ Last(messages).content = crisis_message("WARNING")

-----------------------------------------------------------------------------
(* Further claims on crisis_node, under CrisisSpec *)

\* C26: whether the internal notification is recorded or the recording fails,
\* crisis_node returns the same escalation turn: the message and the actions
\* of the severity it was entered with, and the pending route cleared; the
\* failure shows in the notification log alone.
C26_RecordingFailureChangesNothing ==
    [][ phase = "CRISIS" =>
          LET severity == CrisisSeverity(messages)
          IN  /\ messages' = Append(messages,
                    AIMessage(crisis_message(severity),
                              CrisisToolCalls(severity, hash_seed, user_id, whatsapp_available,
                                              telegram_available, ehr_available)))
              /\ next_node' = "none"
              /\ phase' # "ABORTED"
              /\ notifications' \in {notifications,
                                     Append(notifications, [user_id |-> user_id,
                                                            severity |-> severity])}
      ]_vars

\* an escalation returned for a user whose notification could not be recorded
C26_Witness ==
    /\ CrisisReturned
    /\ user_id # NoUser
    /\ notifications = <<>>
    /\ CallCount(Last(messages), "send_alert_tool") = 1

-----------------------------------------------------------------------------
(* Further claims on the risk scorer, under ScoreSpec *)

\* round(n / d) for d > 0, as round() does it: to the nearest integer, a tie
\* to the even one
Round(n, d) ==
    LET q == n \div d
        r == n % d
    IN  IF 2 * r < d THEN q
        ELSE IF 2 * r > d THEN q + 1
        ELSE IF q % 2 = 0 THEN q ELSE q + 1

\* C27: with ratio = neg / (neg + pos + 1), the scorer adds round(ratio * 10)
\* to the crisis score when ratio > 0.7 and nothing otherwise, and the
\* denominator is never zero.
C27_BonusIsRoundedRatio ==
    Scored =>
        LET neg == scoreText.neg
            pos == scoreText.pos
        IN  /\ neg + pos + 1 > 0
            /\ SentimentBonus(neg, pos) =
                  IF 10 * neg > 7 * (neg + pos + 1)
                  THEN Round(10 * neg, neg + pos + 1)
                  ELSE 0

-----------------------------------------------------------------------------
(* Further claims on the live session's inbound side, under LiveSpec *)

\* C28: every audio payload received from the remote stream is put on the
\* inbound queue, in the order of arrival, for the playback task to write out:
\* with nothing played yet, the queue holds the audio units received so far,
\* in their order.
C28_AudioIsQueuedInOrder ==
    LET audio == {n \in 1..Len(units) : units[n].data}
    IN  /\ Len(audio_in_queue) = Cardinality(audio)
        /\ \A n \in audio :
              audio_in_queue[Cardinality({m \in audio : m <= n})] = n

-----------------------------------------------------------------------------
(* Claims on the routing out of GENERATE, under Spec *)

\* a step of the agent node
AgentStep == phase = "GENERATE" /\ steps' = steps + 1

\* C29: GENERATE routes to CRISIS exactly when its last message is written by
\* the user and scores WARNING or CRITICAL; on a user message that scores
\* NORMAL or CAUTION, and on a tool result as last message, it leaves the
\* pending route alone and appends the turn of the wellness check, of the
\* visual analysis or of the response generator, never an escalation turn.
C29_CrisisOnlyOnAtRiskUserMessage ==
    [][ AgentStep =>
          LET last == Last(messages)
              atRisk == /\ last.type = "human"
                        /\ analyze_sentiment(TextSignals(last.content)) \in {"WARNING", "CRITICAL"}
          IN  /\ phase' = "CRISIS" <=> atRisk
              /\ ~atRisk =>
                    /\ next_node' # "crisis_node"
                    /\ Len(messages') = Len(messages) + 1
                    /\ Last(messages').type = "ai"
                    /\ Last(messages').content \in {"checkin", "analyzing", "reply"}
                    /\ ~IsEscalation(Last(messages'))
                    /\ phase' \in {"TOOLS", "DONE"}
      ]_vars

\* GENERATE entered again on a tool result and answered by the generator
C29_Witness ==
    /\ phase = "DONE"
    /\ Len(messages) >= 4
    /\ messages[Len(messages) - 1].type = "tool"
    /\ Last(messages).type = "ai"
    /\ Last(messages).content = "reply"
    /\ \E i \in 1..Len(messages) :
          /\ messages[i].type = "human"
          /\ analyze_sentiment(TextSignals(messages[i].content)) = "CAUTION"

-----------------------------------------------------------------------------
(* Claims on the running flag, under PipelineSpec *)

\* C30: the running flag of a session only ever goes from true to false: a
\* session object is created running, and no step of the registry, of run() or
\* of a task sets the flag of a stopped session true again or takes the
\* session object away.
C30_RunningOnlyFalls ==
    [][ /\ Len(loops') >= Len(loops)
        /\ \A i \in 1..Len(loops) : ~loops[i].running => ~loops'[i].running
        /\ \A i \in (1..Len(loops')) \ (1..Len(loops)) : loops'[i].running
      ]_vars

\* the microphone stream handed to a session that was stopped meanwhile: the
\* session stays stopped
C30_Witness ==
    /\ Len(loops) >= 1
    /\ ~loops[1].running
    /\ loops[1].audio_stream = "open"
    /\ returned.op = "stop_session" /\ returned.value = "True"

====
